---- MODULE Spec2Model ----
(***************************************************************************)
(* Funnel aggregation, bottleneck classification and segment analysis of   *)
(* the e-commerce clickstream dashboard (data_processor.py), with the      *)
(* clickstream file the generator (data_generator.py) appends to, as a     *)
(* state machine.                                                          *)
(*                                                                         *)
(* Representation:                                                         *)
(*  - a DataFrame is the sequence of its rows, a row is a record;          *)
(*  - a Python float that is the quotient of two small integers is kept    *)
(*    as the exact fraction [num, den] (den > 0); for the counts used here *)
(*    float comparison and comparison of the fractions agree;              *)
(*  - a string produced by f"{x:.1%}" is kept as the cell                  *)
(*    [text |-> "pct", tenths |-> n], n the number of tenths of a percent  *)
(*    it shows ("66.7%" is 667, "-50.0%" is -500);                         *)
(*  - the string 'N/A' is the cell [text |-> "N/A"].                       *)
(***************************************************************************)
EXTENDS Integers, Sequences, FiniteSets, TLC

\* ------------------------------------------------------------------ bounds
\* Session ids of the input tables are 1..NumSessions.
NumSessions == 3
\* An input table has at most MaxEvents rows.
MaxEvents == 3
\* Timestamps (and the ends of a time filter) are instants 1..MaxTime.
MaxTime == 2
\* The first FreeStages rows of an input funnel table take any count of
\* CountValues; the rows after them keep the dashboard's sample counts.
FreeStages == 4

\* Session ids of the tables aggregated twice.
RepeatSessions == 2
\* Session ids of the tables given to the segment analyses.
SegSessions == 2
\* Longest table given to the segment analyses.
SegEvents == 3

\* Most events of a random session.
MaxRandomEvents == 3

\* --------------------------------------------------------- program constants
FUNNEL_STAGES ==
    << <<"homepage", "page_view">>,
       <<"category_page", "page_view">>,
       <<"product_page", "page_view">>,
       <<"product_page", "add_to_cart">>,
       <<"cart_page", "page_view">>,
       <<"checkout_page", "page_view">>,
       <<"payment_page", "page_view">>,
       <<"payment_page", "purchase">> >>

FUNNEL_LABELS ==
    << "Homepage Visit", "Category Page Visit", "Product Page Visit",
       "Add to Cart", "Cart View", "Checkout", "Payment", "Purchase" >>

\* Python's None (no time filter).
None == <<>>

\* pd.DataFrame(): a table with no rows.
EmptyDataFrame == <<>>

\* ------------------------------------------------------------------- inputs
SessionIds == 1..NumSessions
Times == 1..MaxTime

\* The (page, action) pairs of input events: three funnel stages (the first
\* two and the last) and one pair that matches no stage.
EventKinds ==
    { FUNNEL_STAGES[1], FUNNEL_STAGES[2], FUNNEL_STAGES[8],
      <<"homepage", "click">> }

Event(s, t, k) ==
    [session_id |-> s, timestamp |-> t, page |-> k[1], action |-> k[2],
     device |-> "desktop", traffic_source |-> "direct"]

Events == { Event(s, t, k) : s \in SessionIds, t \in Times, k \in EventKinds }

EventTables == UNION { [1..n -> Events] : n \in 0..MaxEvents }

TimeFilters == { None } \cup { <<s, e>> : s \in Times, e \in Times }

\* -------------------------------------------------------------------- state
VARIABLES
    df,            \* the caller's event table
    time_filter,   \* the time_filter argument: None or <<start_date, end_date>>
    funnel_df,     \* what generate_funnel_analysis returned
    bottleneck_df, \* what generate_bottleneck_analysis returned
    pc,            \* the caller's position: "start", "loaded", "funnel_done",
                   \* "funnel_twice", "bottleneck_done", "device_done",
                   \* "traffic_done", "returned", "crashed"
    device_df,     \* what generate_device_analysis returned
    traffic_df,    \* what generate_traffic_analysis returned
    raised,        \* the exception that ended the caller, NoError when none
    reordered,     \* the table given to a second funnel call
    funnel_again,  \* what the second funnel call returned
    file,          \* clickstream_data.csv: [exists, lines]
    snapshot,      \* the lines of the file when the pass loaded it
    written,       \* every event line stored in the file, in call order
    events,        \* generate_session: the events appended so far
    current_time,  \* generate_session: the time of the next event, in seconds
    complete_funnel, \* generate_session: the full-funnel branch was drawn
    num_events     \* generate_session: the length drawn for a random session

vars == <<df, time_filter, funnel_df, bottleneck_df, pc, device_df, traffic_df,
          raised, reordered, funnel_again, file, snapshot, written,
          events, current_time, complete_funnel, num_events>>

\* The variables of a generate_session call.
sessionVars == <<events, current_time, complete_funnel, num_events>>

\* No generate_session call has started.
NoSession ==
    /\ events = <<>>
    /\ current_time = 0
    /\ complete_funnel = FALSE
    /\ num_events = 0

\* No exception.
NoError == "none"

\* clickstream_data.csv before anything created it.
NoFile == [exists |-> FALSE, lines |-> <<>>]

\* The variables of the clickstream file.
fileVars == <<file, snapshot, written>>

\* The state the analyses of a table do not use, before any of them ran.
InitRest ==
    /\ device_df = <<>>
    /\ traffic_df = <<>>
    /\ raised = NoError
    /\ reordered = <<>>
    /\ funnel_again = <<>>
    /\ file = NoFile
    /\ snapshot = <<>>
    /\ written = <<>>
    /\ NoSession

\* ----------------------------------------------------------- pandas helpers
\* df[name]: one column of a table.
Column(d, name) == [k \in 1..Len(d) |-> d[k][name]]

\* Series.unique(): the distinct values, in order of first appearance.
RECURSIVE UniqueFrom(_, _, _)
UniqueFrom(col, k, seen) ==
    IF k > Len(col) THEN seen
    ELSE IF \E j \in 1..Len(seen) : seen[j] = col[k]
         THEN UniqueFrom(col, k + 1, seen)
         ELSE UniqueFrom(col, k + 1, Append(seen, col[k]))

\* The values with only the repetitions that follow each other removed.
UniqueOfRuns(col) ==
    LET runs == SelectSeq([k \in 1..Len(col) |->
                              [value |-> col[k],
                               first |-> k = 1 \/ col[k - 1] # col[k]]],
                          LAMBDA c : c.first)
    IN  [k \in 1..Len(runs) |-> runs[k].value]

Unique(col) == UniqueFrom(col, 1, <<>>)

\* A count of rows in place of a count of distinct values.
NUniqueCountsRows(col) == Len(col)

\* Series.nunique(): the number of distinct values.
NUnique(col) == Len(Unique(col))

\* round-half-even of num / den, den > 0 (the rounding of float formatting).
RoundHalfEven(num, den) ==
    LET q == num \div den
        r == num - q * den
    IN  IF 2 * r < den THEN q
        ELSE IF 2 * r > den THEN q + 1
        ELSE IF q % 2 = 0 THEN q ELSE q + 1

\* f"{rate:.1%}": the percent string of a float, one decimal.
FormatPct(rate) ==
    [text |-> "pct", tenths |-> RoundHalfEven(1000 * rate.num, rate.den)]

\* The string 'N/A'.
NA == [text |-> "N/A"]

RECURSIVE GCD(_, _)
GCD(a, b) == IF b = 0 THEN a ELSE GCD(b, a % b)

Abs(x) == IF x < 0 THEN -x ELSE x

\* The float a / b, b > 0, as a fraction in lowest terms.
Quotient(a, b) ==
    LET g == GCD(Abs(a), b) IN [num |-> a \div g, den |-> b \div g]

\* The guarded division of the code: a / b if b > 0, else 0.
Rate(a, b) == IF b > 0 THEN Quotient(a, b) ELSE [num |-> 0, den |-> 1]

\* x > y on floats.
Gt(x, y) == x.num * y.den > y.num * x.den

\* -------------------------------------------------- generate_funnel_analysis
\* df[(df['timestamp'] >= start_date) & (df['timestamp'] <= end_date)]
ApplyTimeFilter(d, tf) ==
    IF tf = None THEN d
    ELSE SelectSeq(d, LAMBDA e : e.timestamp >= tf[1] /\ e.timestamp <= tf[2])

\* df[(df['page'] == page) & (df['action'] == action)]['session_id'].nunique()
StageSessions(d, stage) ==
    NUnique(Column(SelectSeq(d, LAMBDA e : e.page = stage[1] /\ e.action = stage[2]),
                   "session_id"))

FunnelCounts(d) ==
    [i \in 1..Len(FUNNEL_STAGES) |-> StageSessions(d, FUNNEL_STAGES[i])]

\* drop_rates: 'N/A' first, then the formatted drop of each adjacent pair.
DropRates(funnel_counts) ==
    <<NA>> \o
    [i \in 1..(Len(funnel_counts) - 1) |->
        FormatPct(Rate(funnel_counts[i] - funnel_counts[i + 1], funnel_counts[i]))]

\* The funnel table built from the counts.
FunnelTable(funnel_counts, unique_sessions) ==
    [i \in 1..Len(FUNNEL_LABELS) |->
        [Stage |-> FUNNEL_LABELS[i],
         Sessions |-> funnel_counts[i],
         Conversion_Rate_from_Start |->
             FormatPct(Rate(funnel_counts[i], unique_sessions)),
         Drop_Rate_to_Next |-> DropRates(funnel_counts)[i]]]

\* The caller's table holding the filtered rows after the call.
FilteredInPlace(d, tf) == ApplyTimeFilter(d, tf)

\* The caller's table after the call: df = df[...] binds the function's local
\* name to a new table, and nothing else assigns to a table.
CallerTableAfter(d, tf) == d

generate_funnel_analysis(d, tf) ==
    IF Len(d) = 0 THEN EmptyDataFrame
    ELSE LET f == ApplyTimeFilter(d, tf)
         IN  FunnelTable(FunnelCounts(f), NUnique(Column(f, "session_id")))

\* ---------------------------------------------- generate_bottleneck_analysis
\* The float literals 0.3 and 0.15 of the severity tests.
HIGH_ABOVE == [num |-> 3, den |-> 10]
MEDIUM_ABOVE == [num |-> 15, den |-> 100]

\* The severity tests with >= in place of >.
SeverityInclusive(drop_rate) ==
    IF ~Gt(HIGH_ABOVE, drop_rate) THEN "High"
    ELSE IF ~Gt(MEDIUM_ABOVE, drop_rate) THEN "Medium"
    ELSE "Low"

\* if drop_rate > 0.3: 'High' / elif drop_rate > 0.15: 'Medium' / else: 'Low'
Severity(drop_rate) ==
    IF Gt(drop_rate, HIGH_ABOVE) THEN "High"
    ELSE IF Gt(drop_rate, MEDIUM_ABOVE) THEN "Medium"
    ELSE "Low"

\* The row of one pair with the drop divided by the next stage's sessions.
BottleneckRowOverNext(funnel, i) ==
    LET current_sessions == funnel[i].Sessions
        next_sessions == funnel[i + 1].Sessions
        sessions_lost == current_sessions - next_sessions
        drop_rate == Rate(sessions_lost, next_sessions)
    IN  [Transition |-> <<FUNNEL_LABELS[i], FUNNEL_LABELS[i + 1]>>,
         Sessions_Lost |-> sessions_lost,
         Drop_Rate |-> FormatPct(drop_rate),
         Drop_Rate_Numeric |-> drop_rate,
         Severity |-> Severity(drop_rate)]

\* The row appended for the pair of stages (i, i + 1).
BottleneckRow(funnel, i) ==
    LET current_sessions == funnel[i].Sessions
        next_sessions == funnel[i + 1].Sessions
        sessions_lost == current_sessions - next_sessions
        drop_rate == Rate(sessions_lost, current_sessions)
    IN  [Transition |-> <<FUNNEL_LABELS[i], FUNNEL_LABELS[i + 1]>>,
         Sessions_Lost |-> sessions_lost,
         Drop_Rate |-> FormatPct(drop_rate),
         Drop_Rate_Numeric |-> drop_rate,
         Severity |-> Severity(drop_rate)]

\* for i in range(len(FUNNEL_LABELS) - 1): bottleneck_data.append(...)
BottleneckData(funnel) ==
    [i \in 1..(Len(FUNNEL_LABELS) - 1) |-> BottleneckRow(funnel, i)]

\* The orders (sequences of row numbers) in which the rows `left` can follow
\* each other with Drop_Rate_Numeric never increasing.
RECURSIVE DescendingOrders(_, _)
DescendingOrders(rows, left) ==
    IF left = {} THEN { <<>> }
    ELSE LET first == { i \in left : \A j \in left :
                          ~Gt(rows[j].Drop_Rate_Numeric, rows[i].Drop_Rate_Numeric) }
         IN  UNION { { <<i>> \o rest : rest \in DescendingOrders(rows, left \ {i}) }
                     : i \in first }

\* The rows left in the order they were appended.
SortValuesOmitted(rows) == { rows }

\* sort_values('Drop_Rate_Numeric', ascending=False) with the default
\* kind='quicksort', which is not a stable sort: the tables the call can
\* return are all the descending arrangements of the rows.
SortValuesDescending(rows) ==
    { [k \in 1..Len(rows) |-> rows[o[k]]] : o \in DescendingOrders(rows, 1..Len(rows)) }

\* The tables generate_bottleneck_analysis(funnel) can return.
generate_bottleneck_analysis(funnel) ==
    IF Len(funnel) = 0 THEN { EmptyDataFrame }
    ELSE SortValuesDescending(BottleneckData(funnel))

\* ------------------------------------------------------------------ actions
Init ==
    /\ df \in EventTables
    /\ time_filter \in TimeFilters
    /\ funnel_df = EmptyDataFrame
    /\ bottleneck_df = EmptyDataFrame
    /\ pc = "start"
    /\ InitRest

GenerateFunnel ==
    /\ pc = "start"
    /\ funnel_df' = generate_funnel_analysis(df, time_filter)
    /\ df' = CallerTableAfter(df, time_filter)
    /\ pc' = "funnel_done"
    /\ UNCHANGED <<time_filter, bottleneck_df, device_df, traffic_df, raised,
                   reordered, funnel_again, fileVars,
                   sessionVars>>

Next == GenerateFunnel

Spec == Init /\ [][Next]_vars

\* ------------------------------------------- a second call on the same events
\* The tables that hold the rows of table d in some order.
Reorderings(d) ==
    { [k \in 1..Len(d) |-> d[o[k]]] :
        o \in { f \in [1..Len(d) -> 1..Len(d)] :
                  \A i, j \in 1..Len(d) : f[i] = f[j] => i = j } }

\* The tables aggregated twice: events of the first two funnel stages.
RepeatTables ==
    UNION { [1..n -> { Event(s, t, k) : s \in 1..RepeatSessions, t \in Times,
                                        k \in { FUNNEL_STAGES[1], FUNNEL_STAGES[2] } }]
            : n \in 0..MaxEvents }

InitRepeat ==
    /\ df \in RepeatTables
    /\ time_filter \in TimeFilters
    /\ funnel_df = EmptyDataFrame
    /\ bottleneck_df = EmptyDataFrame
    /\ pc = "start"
    /\ InitRest

\* generate_funnel_analysis called once more with the same events, in the
\* same or another order, and the same time filter.
GenerateFunnelAgain ==
    /\ pc = "funnel_done"
    /\ reordered' \in Reorderings(df)
    /\ funnel_again' = generate_funnel_analysis(reordered', time_filter)
    /\ pc' = "funnel_twice"
    /\ UNCHANGED <<df, time_filter, funnel_df, bottleneck_df, device_df,
                   traffic_df, raised, fileVars, sessionVars>>

NextRepeat == GenerateFunnel \/ GenerateFunnelAgain

SpecRepeat == InitRepeat /\ [][NextRepeat]_vars

\* ---------------------------------------- bottleneck analysis of funnel tables
\* session_counts of the dashboard's sample funnel table:
\* [int(10000 * rate) for rate in conversion_rates].
SampleCounts == <<10000, 6230, 4950, 2320, 1910, 1429, 1260, 869>>

\* The session counts the first FreeStages rows of an input funnel table take.
CountValues == {0, 7, 10, 14, 17, 20}

InputCounts ==
    { [i \in 1..Len(FUNNEL_STAGES) |->
          IF i <= FreeStages THEN f[i] ELSE SampleCounts[i]] :
        f \in [1..FreeStages -> CountValues] }

MaxOf(c) == CHOOSE m \in { c[i] : i \in 1..Len(c) } : \A i \in 1..Len(c) : c[i] <= m

\* The funnel tables given to the bottleneck analysis: the table of an empty
\* event table, and the tables generate_funnel_analysis builds for the input
\* counts (from events in which every session is one of the largest stage's).
InputFunnelTables ==
    { EmptyDataFrame } \cup { FunnelTable(c, MaxOf(c)) : c \in InputCounts }

InitBottleneck ==
    /\ df = EmptyDataFrame
    /\ time_filter = None
    /\ funnel_df \in InputFunnelTables
    /\ bottleneck_df = EmptyDataFrame
    /\ pc = "funnel_done"
    /\ InitRest

GenerateBottleneck ==
    /\ pc = "funnel_done"
    /\ bottleneck_df' \in generate_bottleneck_analysis(funnel_df)
    /\ pc' = "bottleneck_done"
    /\ UNCHANGED <<df, time_filter, funnel_df, device_df, traffic_df, raised,
                   reordered, funnel_again, fileVars,
                   sessionVars>>

NextBottleneck == GenerateBottleneck

SpecBottleneck == InitBottleneck /\ [][NextBottleneck]_vars

\* ------------------------------------------------------- segment analyses
\* data_generator.py: the devices and traffic sources an event can carry.
DEVICES == <<"desktop", "mobile", "tablet">>

TRAFFIC_SOURCES ==
    <<"organic_search", "paid_search", "social_media", "direct", "email",
      "referral">>

\* The value pandas holds in a cell whose field is missing (float nan).
NaN == "nan"

\* str.capitalize() on the device names.
Capitalize(device) ==
    CASE device = "desktop" -> "Desktop"
      [] device = "mobile" -> "Mobile"
      [] device = "tablet" -> "Tablet"

\* source.replace('_', ' ').title() on the traffic source names.
TitleCase(source) ==
    CASE source = "organic_search" -> "Organic Search"
      [] source = "paid_search" -> "Paid Search"
      [] source = "social_media" -> "Social Media"
      [] source = "direct" -> "Direct"
      [] source = "email" -> "Email"
      [] source = "referral" -> "Referral"

\* (page == 'payment_page') & (action == 'purchase')
IsPurchase(e) == e.page = "payment_page" /\ e.action = "purchase"

\* The rows of the sessions whose first event carries the value: each session
\* in one partition only.
RowsOfFirstTouch(d, column, value) ==
    LET First(session) ==
            CHOOSE k \in 1..Len(d) :
                /\ d[k].session_id = session
                /\ \A j \in 1..(k - 1) : d[j].session_id # session
    IN  SelectSeq(d, LAMBDA e : value # NaN /\ d[First(e.session_id)][column] = value)

\* df[df[column] == value]; a comparison with nan is False on every row.
RowsWhere(d, column, value) ==
    SelectSeq(d, LAMBDA e : value # NaN /\ e[column] # NaN /\ e[column] = value)

\* part_df[(page == 'payment_page') & (action == 'purchase')]['session_id']
\* .nunique(): the purchase events are looked for among the partition's rows.
PurchaseSessions(part_df) ==
    NUnique(Column(SelectSeq(part_df, IsPurchase), "session_id"))

\* One partition value for every key of the column, whether it occurs or not.
PartitionKeysAll(d, column) ==
    IF column = "device" THEN DEVICES ELSE TRAFFIC_SOURCES

\* df[column].unique()
PartitionKeys(d, column) == Unique(Column(d, column))

\* total_sessions, purchase_sessions and conversion_rate of one partition.
SegmentCounts(d, column, value) ==
    LET part_df == RowsWhere(d, column, value)
        total_sessions == NUnique(Column(part_df, "session_id"))
        purchase_sessions == PurchaseSessions(part_df)
    IN  [total_sessions |-> total_sessions,
         purchase_sessions |-> purchase_sessions,
         conversion_rate |-> Rate(purchase_sessions, total_sessions)]

\* What a call does: it returns a table, or it raises.
Returned(table) == [raised |-> NoError, table |-> table]

Raised(exception) == [raised |-> exception, table |-> EmptyDataFrame]

\* generate_device_analysis(df): nan has no capitalize().
generate_device_analysis(d) ==
    IF Len(d) = 0 THEN Returned(EmptyDataFrame)
    ELSE LET devices == PartitionKeys(d, "device")
         IN  IF \E k \in 1..Len(devices) : devices[k] = NaN
             THEN Raised("AttributeError")
             ELSE Returned(
                 [k \in 1..Len(devices) |->
                     LET c == SegmentCounts(d, "device", devices[k])
                     IN  [Device |-> Capitalize(devices[k]),
                          Total_Sessions |-> c.total_sessions,
                          Conversions |-> c.purchase_sessions,
                          Conversion_Rate |-> FormatPct(c.conversion_rate),
                          Conversion_Rate_Numeric |-> c.conversion_rate]])

\* generate_traffic_analysis(df): nan has no replace().
generate_traffic_analysis(d) ==
    IF Len(d) = 0 THEN Returned(EmptyDataFrame)
    ELSE LET sources == PartitionKeys(d, "traffic_source")
         IN  IF \E k \in 1..Len(sources) : sources[k] = NaN
             THEN Raised("AttributeError")
             ELSE Returned(
                 [k \in 1..Len(sources) |->
                     LET c == SegmentCounts(d, "traffic_source", sources[k])
                     IN  [Traffic_Source |-> TitleCase(sources[k]),
                          Sessions |-> c.total_sessions,
                          Conversions |-> c.purchase_sessions,
                          Conversion_Rate |-> FormatPct(c.conversion_rate),
                          Conversion_Rate_Numeric |-> c.conversion_rate]])

\* ------------------------------------------------------ the clickstream file
\* The line of column names that to_csv writes first.
HeaderLine == [kind |-> "header"]

\* The line to_csv writes for an event: the timestamp as the text strftime
\* made of it, the metadata as the text json.dumps made of it.
ToCsvLine(e) ==
    [kind |-> "event", session_id |-> e.session_id,
     timestamp |-> [text |-> "datetime", value |-> e.timestamp],
     page |-> e.page, action |-> e.action, device |-> e.device,
     traffic_source |-> e.traffic_source, metadata |-> "json"]

\* pd.to_datetime parses the cell; the column names of a second header line
\* are no date.
TimestampParses(line) ==
    line.kind = "event" /\ line.timestamp.text = "datetime"

\* json.loads parses the cell.
MetadataParses(line) == line.kind = "event" /\ line.metadata = "json"

\* The event read back from a line.
ParseLine(line) ==
    [session_id |-> line.session_id, timestamp |-> line.timestamp.value,
     page |-> line.page, action |-> line.action, device |-> line.device,
     traffic_source |-> line.traffic_source]

\* load_clickstream_data(): a missing file gives an empty table; read_csv
\* takes the first line for the column names; a timestamp or a metadata cell
\* that does not parse raises, and only FileNotFoundError is caught.
load_clickstream_data(f) ==
    IF ~f.exists THEN Returned(EmptyDataFrame)
    ELSE IF Len(f.lines) = 0 THEN Raised("EmptyDataError")
    ELSE IF f.lines[1] # HeaderLine THEN Raised("KeyError")
    ELSE LET rows == Tail(f.lines)
         IN  IF \E k \in 1..Len(rows) : ~TimestampParses(rows[k])
             THEN Raised("ValueError")
             ELSE IF \E k \in 1..Len(rows) : ~MetadataParses(rows[k])
             THEN Raised("JSONDecodeError")
             ELSE Returned([k \in 1..Len(rows) |-> ParseLine(rows[k])])

\* The clickstream file read again in place of the table of this pass.
RereadFile(d, f) ==
    LET call == load_clickstream_data(f)
    IN  IF call.raised = NoError /\ Len(call.table) > 0 THEN call.table ELSE d

\* The events an analysis of the pass is given: the local df that the one
\* load at the start of the pass returned.
PassEvents(d, f) == d

\* to_csv(filename, index=False): the header line and the rows, in a new file.
WriteNew(rows) == [exists |-> TRUE, lines |-> <<HeaderLine>> \o rows]

\* The rows appended behind one more header line.
AppendWithHeader(f, rows) ==
    [exists |-> TRUE, lines |-> f.lines \o <<HeaderLine>> \o rows]

\* to_csv(filename, index=False, mode='a', header=False)
AppendRows(f, rows) == [exists |-> TRUE, lines |-> f.lines \o rows]

\* The file after generate_and_append_events wrote the rows of its batch.
AppendedFile(f, rows) ==
    IF f.exists THEN AppendRows(f, rows) ELSE WriteNew(rows)

\* The events of the tables given to the segment analyses: a page view or a
\* purchase of a session, on a device or with none, from a source or with
\* none.
SegEvent(s, k, device, source) ==
    [session_id |-> s, timestamp |-> 1, page |-> k[1], action |-> k[2],
     device |-> device, traffic_source |-> source]

SegKinds == { FUNNEL_STAGES[1], FUNNEL_STAGES[8] }

SegmentEvents ==
    { SegEvent(s, k, device, "direct") :
        s \in 1..SegSessions, k \in SegKinds, device \in {"desktop", "mobile", NaN} }
    \cup
    { SegEvent(s, k, "desktop", source) :
        s \in 1..SegSessions, k \in SegKinds, source \in {"direct", "organic_search", NaN} }

SegmentTables == UNION { [1..n -> SegmentEvents] : n \in 0..SegEvents }

InitSegment ==
    /\ df \in SegmentTables
    /\ time_filter = None
    /\ funnel_df = EmptyDataFrame
    /\ bottleneck_df = EmptyDataFrame
    /\ pc = "bottleneck_done"
    /\ InitRest

GenerateDevice ==
    /\ pc = "bottleneck_done"
    /\ LET call == generate_device_analysis(PassEvents(df, file))
       IN  /\ device_df' = call.table
           /\ raised' = call.raised
           /\ pc' = IF call.raised = NoError THEN "device_done" ELSE "crashed"
    /\ UNCHANGED <<df, time_filter, funnel_df, bottleneck_df, traffic_df,
                   reordered, funnel_again, fileVars,
                   sessionVars>>

GenerateTraffic ==
    /\ pc = "device_done"
    /\ LET call == generate_traffic_analysis(PassEvents(df, file))
       IN  /\ traffic_df' = call.table
           /\ raised' = call.raised
           /\ pc' = IF call.raised = NoError THEN "traffic_done" ELSE "crashed"
    /\ UNCHANGED <<df, time_filter, funnel_df, bottleneck_df, device_df,
                   reordered, funnel_again, fileVars,
                   sessionVars>>

NextSegment == GenerateDevice \/ GenerateTraffic

SpecSegment == InitSegment /\ [][NextSegment]_vars

\* ------------------------------------------- the four analyses of one table
\* Longest table given to the four analyses in turn.
FrameEvents == 1

\* The tables given to the four analyses in turn: homepage views and
\* purchases of one session.
FrameTables ==
    UNION { [1..n -> { e \in Events : e.session_id = 1 /\ IsPurchase(e) }
                     \cup { Event(1, t, FUNNEL_STAGES[1]) : t \in Times }]
            : n \in 0..FrameEvents }

InitAnalyses ==
    /\ df \in FrameTables
    /\ time_filter \in TimeFilters
    /\ funnel_df = EmptyDataFrame
    /\ bottleneck_df = EmptyDataFrame
    /\ pc = "start"
    /\ InitRest

NextAnalyses ==
    GenerateFunnel \/ GenerateBottleneck \/ GenerateDevice \/ GenerateTraffic

SpecAnalyses == InitAnalyses /\ [][NextAnalyses]_vars

\* ------------------------------------ one processing pass beside the generator
\* Most event lines the file holds.
MaxLines == 4
\* Most event lines of the file found at the start.
MaxStored == 2

\* A line whose timestamp cell is no date.
BadTimestampLine ==
    [ToCsvLine(Event(1, 1, FUNNEL_STAGES[1])) EXCEPT !.timestamp = [text |-> "unparseable"]]

\* A line whose metadata cell is no JSON text.
BadMetadataLine ==
    [ToCsvLine(Event(1, 1, FUNNEL_STAGES[1])) EXCEPT !.metadata = "unparseable"]

\* The event lines of a file found at the start: lines the generator wrote
\* and lines that do not parse.
StoredLines ==
    { ToCsvLine(Event(1, 1, FUNNEL_STAGES[1])), BadTimestampLine, BadMetadataLine }

\* The sessions generate_session can return, as their (page, action, device,
\* traffic source) events: one homepage view, or a homepage view and a
\* purchase on another device from another source.
SessionShapes ==
    { << <<FUNNEL_STAGES[1], "desktop", "direct">> >>,
      << <<FUNNEL_STAGES[1], "desktop", "direct">>,
         <<FUNNEL_STAGES[8], "mobile", "email">> >> }

\* session_id = fake.uuid4(): an id no stored event has.
NewSessionId(stored) ==
    1 + Cardinality({ stored[k].session_id : k \in 1..Len(stored) })

\* The lines of one batch of one session.
BatchLines(shape, stored) ==
    [k \in 1..Len(shape) |->
        ToCsvLine(SegEvent(NewSessionId(stored), shape[k][1], shape[k][2], shape[k][3]))]

InitPipeline ==
    /\ df = EmptyDataFrame
    /\ time_filter = None
    /\ funnel_df = EmptyDataFrame
    /\ bottleneck_df = EmptyDataFrame
    /\ pc = "idle"
    /\ device_df = <<>>
    /\ traffic_df = <<>>
    /\ raised = NoError
    /\ reordered = <<>>
    /\ funnel_again = <<>>
    /\ snapshot = <<>>
    /\ NoSession
    /\ \/ file = NoFile /\ written = <<>>
       \/ \E rows \in UNION { [1..n -> StoredLines] : n \in 0..MaxStored } :
             file = WriteNew(rows) /\ written = rows

\* __main__ of data_generator.py: generate_and_save_events when the file does
\* not exist.
SaveEvents ==
    /\ ~file.exists
    /\ \E shape \in SessionShapes :
          LET rows == BatchLines(shape, written)
          IN  /\ Len(written) + Len(rows) <= MaxLines
              /\ file' = WriteNew(rows)
              /\ written' = written \o rows
    /\ UNCHANGED <<df, time_filter, funnel_df, bottleneck_df, pc, device_df,
                   traffic_df, raised, reordered, funnel_again, snapshot,
                   sessionVars>>

\* generate_and_append_events()
AppendEvents ==
    /\ \E shape \in SessionShapes :
          LET rows == BatchLines(shape, written)
          IN  /\ Len(written) + Len(rows) <= MaxLines
              /\ file' = AppendedFile(file, rows)
              /\ written' = written \o rows
    /\ UNCHANGED <<df, time_filter, funnel_df, bottleneck_df, pc, device_df,
                   traffic_df, raised, reordered, funnel_again, snapshot,
                   sessionVars>>

\* process_and_save_all_data(): df = load_clickstream_data(), and the return
\* when the table is empty.
LoadData ==
    /\ pc = "idle"
    /\ LET call == load_clickstream_data(file)
       IN  /\ df' = call.table
           /\ raised' = call.raised
           /\ pc' = IF call.raised # NoError THEN "crashed"
                     ELSE IF Len(call.table) = 0 THEN "returned"
                     ELSE "start"
    /\ snapshot' = file.lines
    /\ UNCHANGED <<time_filter, funnel_df, bottleneck_df, device_df, traffic_df,
                   reordered, funnel_again, file, written, sessionVars>>

\* process_and_save_all_data(): the summary printed after the four reports.
PrintSummary ==
    /\ pc = "traffic_done"
    /\ pc' = "returned"
    /\ UNCHANGED <<df, time_filter, funnel_df, bottleneck_df, device_df,
                   traffic_df, raised, reordered, funnel_again, fileVars,
                   sessionVars>>

NextPipeline ==
    \/ SaveEvents
    \/ AppendEvents
    \/ LoadData
    \/ GenerateFunnel
    \/ GenerateBottleneck
    \/ GenerateDevice
    \/ GenerateTraffic
    \/ PrintSummary

SpecPipeline == InitPipeline /\ [][NextPipeline]_vars

\* ------------------------------------------------------------ generate_session
PAGES ==
    <<"homepage", "category_page", "product_page", "cart_page", "checkout_page",
      "payment_page", "order_confirmation">>

USER_ACTIONS ==
    <<"page_view", "click", "add_to_cart", "remove_from_cart", "begin_checkout",
      "purchase">>

\* generate_event: the action an event keeps for the page and action drawn,
\* the four tests applied one after the other.
ConstrainedAction(page, action) ==
    LET a1 == IF /\ page \in {"homepage", "category_page"}
                 /\ action \in {"add_to_cart", "remove_from_cart",
                                 "begin_checkout", "purchase"}
              THEN "click" ELSE action
        a2 == IF page = "product_page" /\ a1 \in {"begin_checkout", "purchase"}
              THEN "add_to_cart" ELSE a1
        a3 == IF page \in {"checkout_page", "payment_page"} /\ a2 = "add_to_cart"
              THEN "click" ELSE a2
    IN  IF page = "order_confirmation" /\ a3 # "page_view" THEN "page_view" ELSE a3

\* The (page, action) pairs the full-funnel branch gives its events, in order.
FunnelScript ==
    << <<"homepage", "page_view">>,
       <<"category_page", "page_view">>,
       <<"product_page", "page_view">>,
       <<"product_page", "add_to_cart">>,
       <<"cart_page", "page_view">>,
       <<"cart_page", "begin_checkout">>,
       <<"checkout_page", "page_view">>,
       <<"payment_page", "page_view">>,
       <<"payment_page", "purchase">>,
       <<"order_confirmation", "page_view">> >>

\* The lengths at which the full-funnel branch ends: no checkout, no
\* purchase, order confirmed.
FunnelEnds == {5, 8, Len(FunnelScript)}

\* timedelta(seconds=random.randint(5, 30)): the two ends of the range.
FunnelGaps == {5, 30}

\* timedelta(seconds=random.randint(1, 120)): the two ends of the range.
RandomGaps == {1, 120}

InitSession ==
    /\ df = EmptyDataFrame
    /\ time_filter = None
    /\ funnel_df = EmptyDataFrame
    /\ bottleneck_df = EmptyDataFrame
    /\ pc = "session_start"
    /\ InitRest

\* generate_session: the base time and the branch are drawn (and, in the
\* random branch, the number of events).
StartSession ==
    /\ pc = "session_start"
    /\ events' = <<>>
    /\ current_time' = 0
    /\ \/ /\ complete_funnel' = TRUE
          /\ num_events' = 0
          /\ pc' = "funnel_branch"
       \/ /\ complete_funnel' = FALSE
          /\ num_events' \in 1..MaxRandomEvents
          /\ pc' = "random_branch"
    /\ UNCHANGED <<df, time_filter, funnel_df, bottleneck_df, device_df,
                   traffic_df, raised, reordered, funnel_again, fileVars>>

\* The full-funnel branch appends its next event, with the page and action
\* of the script in place of the drawn ones, and moves the time on.
AppendFunnelEvent ==
    /\ pc = "funnel_branch"
    /\ Len(events) < Len(FunnelScript)
    /\ events' = Append(events, Event(1, current_time, FunnelScript[Len(events) + 1]))
    /\ IF Len(events) + 1 < Len(FunnelScript)
       THEN \E gap \in FunnelGaps : current_time' = current_time + gap
       ELSE current_time' = current_time
    /\ UNCHANGED <<df, time_filter, funnel_df, bottleneck_df, pc, device_df,
                   traffic_df, raised, reordered, funnel_again, fileVars,
                   complete_funnel, num_events>>

\* One turn of the random branch's loop: generate_event draws page and
\* action, and the time moves on.
AppendRandomEvent ==
    /\ pc = "random_branch"
    /\ Len(events) < num_events
    /\ \E i \in 1..Len(PAGES), j \in 1..Len(USER_ACTIONS) :
          events' = Append(events,
              Event(1, current_time,
                    <<PAGES[i], ConstrainedAction(PAGES[i], USER_ACTIONS[j])>>))
    /\ \E gap \in RandomGaps : current_time' = current_time + gap
    /\ UNCHANGED <<df, time_filter, funnel_df, bottleneck_df, pc, device_df,
                   traffic_df, raised, reordered, funnel_again, fileVars,
                   complete_funnel, num_events>>

\* return events
ReturnSession ==
    /\ \/ pc = "funnel_branch" /\ Len(events) \in FunnelEnds
       \/ pc = "random_branch" /\ Len(events) = num_events
    /\ pc' = "session_returned"
    /\ UNCHANGED <<df, time_filter, funnel_df, bottleneck_df, device_df,
                   traffic_df, raised, reordered, funnel_again, fileVars,
                   sessionVars>>

NextSession ==
    StartSession \/ AppendFunnelEvent \/ AppendRandomEvent \/ ReturnSession

SpecSession == InitSession /\ [][NextSession]_vars

\* ------------------------------------------------ funnel aggregation claims
\* The rows of the caller's table that pass the time filter as the code
\* applies it.
Kept == ApplyTimeFilter(df, time_filter)

\* The sessions having at least one event among the rows of table d whose
\* (page, action) is the stage's matcher.
SessionsAt(d, stage) ==
    { s \in SessionIds :
        \E k \in 1..Len(d) :
            d[k].session_id = s /\ <<d[k].page, d[k].action>> = stage }

\* The sessions having at least one event among the rows of table d.
SessionsOf(d) == { d[k].session_id : k \in 1..Len(d) }

\* C1: for every event set (also an empty one, or one the time filter
\* empties) the funnel aggregation returns exactly one row per funnel stage,
\* in stage order.
C1_OneRowPerStage ==
    pc = "funnel_done" =>
        /\ Len(funnel_df) = Len(FUNNEL_STAGES)
        /\ \A i \in 1..Len(funnel_df) : funnel_df[i].Stage = FUNNEL_LABELS[i]

\* A percent cell showing a rate within [0, 1].
InUnitInterval(cell) ==
    cell.text = "pct" /\ cell.tenths >= 0 /\ cell.tenths <= 1000

\* C2: every rate of the funnel result lies in [0, 1]: each stage's
\* conversion rate from start and each drop rate to the next stage, also when
\* a later stage has more sessions than the stage before it.
C2_RatesInUnitInterval ==
    pc = "funnel_done" =>
        \A i \in 1..Len(funnel_df) :
            /\ InUnitInterval(funnel_df[i].Conversion_Rate_from_Start)
            /\ funnel_df[i].Drop_Rate_to_Next = NA
               \/ InUnitInterval(funnel_df[i].Drop_Rate_to_Next)

\* C3: an empty event set yields a row for every stage, each with session
\* count 0 and rates 0.
C3_EmptyEventsAllZero ==
    (pc = "funnel_done" /\ Len(df) = 0) =>
        /\ Len(funnel_df) = Len(FUNNEL_STAGES)
        /\ \A i \in 1..Len(funnel_df) :
              /\ funnel_df[i].Sessions = 0
              /\ funnel_df[i].Conversion_Rate_from_Start.tenths = 0
              /\ funnel_df[i].Drop_Rate_to_Next = NA
                 \/ funnel_df[i].Drop_Rate_to_Next.tenths = 0

\* C4: the session count of a stage is the number of distinct session ids
\* with at least one filtered event matching the stage, whatever the order of
\* the events, the number of matching events of a session and the other
\* stages the session matched.
C4_StageCountIsDistinctSessions ==
    (pc = "funnel_done" /\ Len(df) > 0) =>
        \A i \in 1..Len(FUNNEL_STAGES) :
            funnel_df[i].Sessions = Cardinality(SessionsAt(Kept, FUNNEL_STAGES[i]))

\* C4's case: a session with two kept events matching the second stage and
\* none matching the first, beside a session that matches no stage.
C4_Witness ==
    /\ pc = "funnel_done"
    /\ Len(funnel_df) = Len(FUNNEL_STAGES)
    /\ \E k, l \in 1..Len(Kept) :
          /\ k < l
          /\ Kept[k].session_id = Kept[l].session_id
          /\ <<Kept[k].page, Kept[k].action>> = FUNNEL_STAGES[2]
          /\ <<Kept[l].page, Kept[l].action>> = FUNNEL_STAGES[2]
    /\ funnel_df[1].Sessions = 0
    /\ funnel_df[2].Sessions = 1
    /\ Cardinality(SessionsOf(Kept)) = 2

\* C5: the conversion rate from start of stage i is stage_count[i] divided by
\* the number of distinct sessions of the filtered event set, and 0 when that
\* number is 0.
C5_ConversionRateIsQuotient ==
    (pc = "funnel_done" /\ Len(df) > 0) =>
        \A i \in 1..Len(funnel_df) :
            LET total == Cardinality(SessionsOf(Kept))
                cell == funnel_df[i].Conversion_Rate_from_Start
            IN  /\ cell.text = "pct"
                /\ IF total = 0 THEN cell.tenths = 0
                   ELSE cell.tenths * total = 1000 * funnel_df[i].Sessions

\* C6: the row of stage i, i before the last stage, carries the drop rate
\* (count[i] - count[i+1]) / count[i], or 0 when count[i] is 0; the row of the
\* last stage carries no drop rate.
C6_DropRateOnOwnRow ==
    (pc = "funnel_done" /\ Len(df) > 0) =>
        \A i \in 1..Len(funnel_df) :
            LET cell == funnel_df[i].Drop_Rate_to_Next
            IN  IF i = Len(funnel_df) THEN cell = NA
                ELSE LET here == funnel_df[i].Sessions
                         next == funnel_df[i + 1].Sessions
                     IN  /\ cell.text = "pct"
                         /\ IF here = 0 THEN cell.tenths = 0
                            ELSE cell.tenths * here = 1000 * (here - next)

\* The rows of the caller's table within the half-open window [start, end).
KeptHalfOpen ==
    IF time_filter = None THEN df
    ELSE SelectSeq(df, LAMBDA e : time_filter[1] <= e.timestamp
                                  /\ e.timestamp < time_filter[2])

\* C7: with a time window (start, end), start before end, an event is kept
\* iff start <= timestamp < end: every count is taken over exactly these
\* events (one at start is counted, one at end is not).
C7_WindowIsHalfOpen ==
    (/\ pc = "funnel_done"
     /\ Len(df) > 0
     /\ time_filter # None
     /\ time_filter[1] < time_filter[2]) =>
        \A i \in 1..Len(FUNNEL_STAGES) :
            funnel_df[i].Sessions =
                Cardinality(SessionsAt(KeptHalfOpen, FUNNEL_STAGES[i]))

\* ------------------------------------------------ bottleneck analysis claims
\* The drop rate of bottleneck row k is at least that of row l.
AtLeast(k, l) ==
    ~Gt(bottleneck_df[l].Drop_Rate_Numeric, bottleneck_df[k].Drop_Rate_Numeric)

\* The place in the funnel of the transition a bottleneck row is about.
StageIndex(row) ==
    CHOOSE i \in 1..Len(FUNNEL_LABELS) : FUNNEL_LABELS[i] = row.Transition[1]

\* C8: for a funnel result of n >= 1 rows the bottleneck analysis returns
\* exactly n - 1 rows, one per adjacent stage pair, with drop_rate
\* non-increasing from the first row to the last.
C8_OneRowPerPairSortedDescending ==
    (pc = "bottleneck_done" /\ Len(funnel_df) >= 1) =>
        /\ Len(bottleneck_df) = Len(funnel_df) - 1
        /\ \A i \in 1..(Len(funnel_df) - 1) :
              Cardinality({ k \in 1..Len(bottleneck_df) :
                  bottleneck_df[k].Transition =
                      <<funnel_df[i].Stage, funnel_df[i + 1].Stage>> }) = 1
        /\ \A k \in 1..(Len(bottleneck_df) - 1) : AtLeast(k, k + 1)

\* C8's case: a sorted table of 7 rows whose order is not the funnel's and
\* whose first drop rate is above its last.
C8_Witness ==
    /\ pc = "bottleneck_done"
    /\ Len(funnel_df) = Len(FUNNEL_LABELS)
    /\ Len(bottleneck_df) = Len(FUNNEL_LABELS) - 1
    /\ StageIndex(bottleneck_df[1]) # 1
    /\ ~AtLeast(Len(bottleneck_df), 1)

\* C9: two transitions of equal drop_rate appear in the bottleneck output in
\* their funnel stage order.
C9_TiesKeepStageOrder ==
    pc = "bottleneck_done" =>
        \A k, l \in 1..Len(bottleneck_df) :
            (k < l /\ bottleneck_df[k].Drop_Rate_Numeric
                        = bottleneck_df[l].Drop_Rate_Numeric)
                => StageIndex(bottleneck_df[k]) < StageIndex(bottleneck_df[l])

\* C10: a bottleneck row is High iff drop_rate > 0.30, Medium iff
\* 0.15 < drop_rate <= 0.30, and Low otherwise (negative rates included).
C10_SeverityThresholds ==
    pc = "bottleneck_done" =>
        \A k \in 1..Len(bottleneck_df) :
            LET n == bottleneck_df[k].Drop_Rate_Numeric.num
                d == bottleneck_df[k].Drop_Rate_Numeric.den
                severity == bottleneck_df[k].Severity
            IN  /\ severity = "High" <=> 10 * n > 3 * d
                /\ severity = "Medium" <=> (100 * n > 15 * d /\ 10 * n <= 3 * d)
                /\ severity = "Low" <=> 100 * n <= 15 * d

\* C10's case: one table with a row at exactly 0.30 (Medium), a row at exactly
\* 0.15 (Low), a row with a negative rate (Low) and a High row.
C10_Witness ==
    /\ pc = "bottleneck_done"
    /\ \E a, b, c, h \in 1..Len(bottleneck_df) :
          /\ bottleneck_df[a].Drop_Rate_Numeric = [num |-> 3, den |-> 10]
          /\ bottleneck_df[a].Severity = "Medium"
          /\ bottleneck_df[b].Drop_Rate_Numeric = [num |-> 3, den |-> 20]
          /\ bottleneck_df[b].Severity = "Low"
          /\ bottleneck_df[c].Drop_Rate_Numeric.num < 0
          /\ bottleneck_df[c].Severity = "Low"
          /\ bottleneck_df[h].Severity = "High"

\* C11: each bottleneck row of the pair (i, i+1) has sessions_lost =
\* count[i] - count[i+1], negative when the next stage has more sessions, and
\* a drop rate recomputed from the counts (sessions_lost / count[i], or 0 when
\* count[i] is 0) whose formatted value is the funnel's drop rate of the same
\* transition.
C11_RowRecomputesFunnelDrop ==
    pc = "bottleneck_done" =>
        \A k \in 1..Len(bottleneck_df) :
            LET row == bottleneck_df[k]
                i == StageIndex(row)
                count == funnel_df[i].Sessions
            IN  /\ row.Sessions_Lost = count - funnel_df[i + 1].Sessions
                /\ row.Drop_Rate_Numeric.den > 0
                /\ IF count > 0
                   THEN row.Drop_Rate_Numeric.num * count =
                            row.Sessions_Lost * row.Drop_Rate_Numeric.den
                   ELSE row.Drop_Rate_Numeric.num = 0
                /\ row.Drop_Rate = funnel_df[i + 1].Drop_Rate_to_Next

\* A bottleneck result with a negative sessions_lost, a pair whose first count
\* is 0 and a pair that loses part of its sessions.
C11_Witness ==
    /\ pc = "bottleneck_done"
    /\ \E a, b, c \in 1..Len(bottleneck_df) :
          /\ bottleneck_df[a].Sessions_Lost < 0
          /\ bottleneck_df[a].Drop_Rate.tenths < 0
          /\ funnel_df[StageIndex(bottleneck_df[b])].Sessions = 0
          /\ bottleneck_df[b].Sessions_Lost < 0
          /\ bottleneck_df[b].Drop_Rate.tenths = 0
          /\ bottleneck_df[c].Sessions_Lost > 0
          /\ bottleneck_df[c].Drop_Rate.tenths \in 1..999

\* ------------------------------------------------ segment analysis claims
\* The sessions having at least one event of table d whose column holds value.
SessionsIn(d, column, value) ==
    { d[k].session_id : k \in { j \in 1..Len(d) : d[j][column] = value } }

\* The values of a column of table d.
ValuesOf(d, column) == { d[k][column] : k \in 1..Len(d) }

RECURSIVE SumFrom(_, _, _)
SumFrom(table, name, k) ==
    IF k > Len(table) THEN 0 ELSE table[k][name] + SumFrom(table, name, k + 1)

\* The sum of a column of integers.
Sum(table, name) == SumFrom(table, name, 1)

\* The rows of a segment table that carry the label.
RowsLabelled(table, name, label) ==
    { k \in 1..Len(table) : table[k][name] = label }

\* The device analysis returned a table.
DeviceReturned == pc \in {"device_done", "traffic_done"}

\* The traffic-source analysis returned a table.
TrafficReturned == pc = "traffic_done"

\* Some session of table d has events in two partitions of the column.
Spans(d, column) ==
    \E j, k \in 1..Len(d) :
        d[j].session_id = d[k].session_id /\ d[j][column] # d[k][column]

\* C12: each segment analysis emits exactly one row for each partition key
\* value that occurs on at least one event and none for a key value that
\* occurs on no event, so every emitted row has total_sessions >= 1.
C12_OneRowPerObservedKey ==
    /\ DeviceReturned =>
          /\ \A i \in 1..Len(DEVICES) :
                Cardinality(RowsLabelled(device_df, "Device", Capitalize(DEVICES[i]))) =
                    IF DEVICES[i] \in ValuesOf(df, "device") THEN 1 ELSE 0
          /\ Len(device_df) = Cardinality(ValuesOf(df, "device"))
          /\ \A k \in 1..Len(device_df) : device_df[k].Total_Sessions >= 1
    /\ TrafficReturned =>
          /\ \A i \in 1..Len(TRAFFIC_SOURCES) :
                Cardinality(RowsLabelled(traffic_df, "Traffic_Source",
                                         TitleCase(TRAFFIC_SOURCES[i]))) =
                    IF TRAFFIC_SOURCES[i] \in ValuesOf(df, "traffic_source")
                    THEN 1 ELSE 0
          /\ Len(traffic_df) = Cardinality(ValuesOf(df, "traffic_source"))
          /\ \A k \in 1..Len(traffic_df) : traffic_df[k].Sessions >= 1

\* Both analyses returned two rows, for a table where other key values occur
\* on no event.
C12_Witness ==
    /\ TrafficReturned
    /\ Len(device_df) = 2
    /\ Len(traffic_df) = 2
    /\ RowsLabelled(device_df, "Device", "Tablet") = {}
    /\ RowsLabelled(traffic_df, "Traffic_Source", "Email") = {}

\* C13: a session is counted in total_sessions of every partition value that
\* one of its events carries, so the total_sessions of the segment rows sum to
\* at least the number of distinct sessions, with equality exactly when no
\* session has events in two partitions.
C13_SessionCountedInEveryPartition ==
    /\ DeviceReturned =>
          /\ \A i \in 1..Len(DEVICES) :
                \A k \in RowsLabelled(device_df, "Device", Capitalize(DEVICES[i])) :
                    device_df[k].Total_Sessions =
                        Cardinality(SessionsIn(df, "device", DEVICES[i]))
          /\ Sum(device_df, "Total_Sessions") >= Cardinality(SessionsOf(df))
          /\ Sum(device_df, "Total_Sessions") = Cardinality(SessionsOf(df))
                <=> ~Spans(df, "device")
    /\ TrafficReturned =>
          /\ \A i \in 1..Len(TRAFFIC_SOURCES) :
                \A k \in RowsLabelled(traffic_df, "Traffic_Source",
                                       TitleCase(TRAFFIC_SOURCES[i])) :
                    traffic_df[k].Sessions =
                        Cardinality(SessionsIn(df, "traffic_source", TRAFFIC_SOURCES[i]))
          /\ Sum(traffic_df, "Sessions") >= Cardinality(SessionsOf(df))
          /\ Sum(traffic_df, "Sessions") = Cardinality(SessionsOf(df))
                <=> ~Spans(df, "traffic_source")

\* A table of two sessions, one of them with events on two devices and from
\* two sources: the totals of either analysis sum to three.
C13_Witness ==
    /\ TrafficReturned
    /\ Cardinality(SessionsOf(df)) = 2
    /\ Spans(df, "device")
    /\ Spans(df, "traffic_source")
    /\ Sum(device_df, "Total_Sessions") = 3
    /\ Sum(traffic_df, "Sessions") = 3

\* The sessions of table d with a purchase event on any of their events.
PurchasedAnywhere(d) ==
    { d[k].session_id : k \in { j \in 1..Len(d) : IsPurchase(d[j]) } }

\* C14: a session counted in a partition's total_sessions is counted in that
\* partition's converted sessions whenever any event of the session is a
\* (payment_page, purchase) event, also one carrying another partition value.
C14_PurchaseMatchedAnywhereInSession ==
    /\ DeviceReturned =>
          \A i \in 1..Len(DEVICES) :
              \A k \in RowsLabelled(device_df, "Device", Capitalize(DEVICES[i])) :
                  device_df[k].Conversions =
                      Cardinality(SessionsIn(df, "device", DEVICES[i])
                                  \cap PurchasedAnywhere(df))
    /\ TrafficReturned =>
          \A i \in 1..Len(TRAFFIC_SOURCES) :
              \A k \in RowsLabelled(traffic_df, "Traffic_Source",
                                     TitleCase(TRAFFIC_SOURCES[i])) :
                  traffic_df[k].Conversions =
                      Cardinality(SessionsIn(df, "traffic_source", TRAFFIC_SOURCES[i])
                                  \cap PurchasedAnywhere(df))

\* Some event of table d has no value in the column.
LacksField(d, column) == \E k \in 1..Len(d) : d[k][column] = NaN

\* C16: when some event lacks the device or the traffic source, the segment
\* analysis does not raise: it emits an "unknown" row that counts the sessions
\* of those events.
C16_MissingFieldGetsUnknownRow ==
    /\ (pc # "bottleneck_done" /\ LacksField(df, "device")) =>
          /\ raised = NoError
          /\ \E k \in 1..Len(device_df) :
                /\ device_df[k].Device = "Unknown"
                /\ device_df[k].Total_Sessions =
                       Cardinality(SessionsIn(df, "device", NaN))
    /\ (pc \notin {"bottleneck_done", "device_done"}
            /\ ~LacksField(df, "device") /\ LacksField(df, "traffic_source")) =>
          /\ raised = NoError
          /\ \E k \in 1..Len(traffic_df) :
                /\ traffic_df[k].Traffic_Source = "Unknown"
                /\ traffic_df[k].Sessions =
                       Cardinality(SessionsIn(df, "traffic_source", NaN))

\* ------------------------------------------------------- repeated-call claims
\* C15: a second funnel aggregation of the same events with the same time
\* window returns the rows and fields of the first, whatever the order of the
\* events in the input.
C15_SameResultInAnyOrder ==
    pc = "funnel_twice" => funnel_again = funnel_df

\* A second call on three events of two sessions, the events of one session
\* apart in one order and together in the other, all inside the window.
C15_Witness ==
    /\ pc = "funnel_twice"
    /\ reordered # df
    /\ Len(Kept) = 3
    /\ df[1].session_id = df[3].session_id
    /\ df[1].session_id # df[2].session_id
    /\ reordered[1].session_id = reordered[2].session_id
    /\ funnel_again[1].Sessions = 2

\* ----------------------------------------------------------- frame claims
\* C18: the funnel, bottleneck, device and traffic-source analyses leave
\* their input unchanged: across each call, with or without a time filter,
\* the caller's event table keeps its rows and values, and across the
\* bottleneck analysis so does the funnel result passed to it.
C18_AnalysesLeaveInputsUnchanged ==
    [][ /\ df' = df
        /\ pc = "funnel_done" => funnel_df' = funnel_df ]_vars

\* The four analyses have run on a table from which the time filter removes
\* an event.
C18_Witness ==
    /\ pc = "traffic_done"
    /\ time_filter # None
    /\ Len(Kept) < Len(df)
    /\ Len(funnel_df) = Len(FUNNEL_LABELS)
    /\ Len(bottleneck_df) = Len(FUNNEL_LABELS) - 1
    /\ Len(device_df) = 1
    /\ Len(traffic_df) = 1

\* -------------------------------------------------------- pipeline claims
\* The event lines the pass found in the file when it loaded it.
SnapshotRows == IF Len(snapshot) = 0 THEN <<>> ELSE Tail(snapshot)

\* The events of the lines among rows that parse.
WellFormed(rows) ==
    LET good == SelectSeq(rows, LAMBDA l : TimestampParses(l) /\ MetadataParses(l))
    IN  [k \in 1..Len(good) |-> ParseLine(good[k])]

\* C17: an event whose timestamp or metadata cannot be parsed is skipped:
\* the load does not raise, the remaining events are loaded and the pass goes
\* on with them.
C17_MalformedEventsSkipped ==
    (pc # "idle" /\ Len(WellFormed(SnapshotRows)) < Len(SnapshotRows)) =>
        /\ raised = NoError
        /\ pc # "crashed"
        /\ df = WellFormed(SnapshotRows)

\* The events of the one load at the start of the pass.
SnapshotTable == WellFormed(SnapshotRows)

\* C19: within one pass the funnel, bottleneck, device and traffic-source
\* reports are all computed from the events of the one load at the start of
\* the pass, whatever the generator appends to the file meanwhile.
C19_ReportsOfOneSnapshot ==
    LET funnel == generate_funnel_analysis(SnapshotTable, None)
        after == [funnel_done |-> 1, bottleneck_done |-> 2, device_done |-> 3,
                  traffic_done |-> 4, returned |-> 5]
        done == IF pc \in DOMAIN after /\ Len(df) > 0 THEN after[pc] ELSE 0
    IN  /\ done >= 1 => funnel_df = funnel
        /\ done >= 2 =>
              /\ Len(bottleneck_df) = Len(FUNNEL_LABELS) - 1
              /\ \A k \in 1..Len(bottleneck_df) :
                    bottleneck_df[k] = BottleneckRow(funnel, StageIndex(bottleneck_df[k]))
              /\ \A k, l \in 1..Len(bottleneck_df) :
                    k # l => StageIndex(bottleneck_df[k]) # StageIndex(bottleneck_df[l])
              /\ \A k \in 1..(Len(bottleneck_df) - 1) : AtLeast(k, k + 1)
        /\ done >= 3 => device_df = generate_device_analysis(SnapshotTable).table
        /\ done >= 4 => traffic_df = generate_traffic_analysis(SnapshotTable).table

\* The four reports are written and the generator appended a session with a
\* purchase to the file after the load: the file holds more events than the
\* reports count.
C19_Witness ==
    /\ pc = "traffic_done"
    /\ file.lines # snapshot
    /\ Len(snapshot) >= 2
    /\ \E k \in 1..Len(file.lines) :
          k > Len(snapshot) /\ file.lines[k].page = "payment_page"
    /\ Sum(device_df, "Conversions") = 0
    /\ Len(funnel_df) = Len(FUNNEL_LABELS)

\* C20: after any sequence of generator calls the file holds one header line
\* followed by every event of every batch in call order: nothing stored is
\* removed or rewritten, and only the call that creates the file writes the
\* header.
C20_OneHeaderThenEveryBatch ==
    /\ [](file.exists => file.lines = <<HeaderLine>> \o written)
    /\ [](~file.exists => written = <<>>)
    /\ [][ file.exists =>
              /\ file'.exists
              /\ Len(file'.lines) >= Len(file.lines)
              /\ SubSeq(file'.lines, 1, Len(file.lines)) = file.lines ]_vars

\* A file that an append created and two more appends extended: three
\* sessions behind the one header line.
C20_Witness ==
    /\ file.exists
    /\ Len(file.lines) = MaxLines + 1
    /\ Cardinality({ written[k].session_id : k \in 1..Len(written) }) = 3
    /\ file.lines[1] = HeaderLine
    /\ \A k \in 2..Len(file.lines) : file.lines[k].kind = "event"

\* ------------------------------------------------------- generator claims
\* The places in the funnel of the stages an event matches (one or none).
StagesOf(e) ==
    { i \in 1..Len(FUNNEL_STAGES) : FUNNEL_STAGES[i] = <<e.page, e.action>> }

\* The timestamps of a session's events strictly increase.
TimestampsIncrease(session) ==
    \A k \in 1..(Len(session) - 1) :
        session[k].timestamp < session[k + 1].timestamp

\* No event matching an earlier funnel stage follows an event matching a
\* later one.
StagesForward(session) ==
    \A j, k \in 1..Len(session) :
        j < k => \A a \in StagesOf(session[j]), b \in StagesOf(session[k]) : a <= b

\* C21: every session generate_session returns, from the full-funnel branch
\* or from the random branch, is a forward-only event sequence: timestamps
\* strictly increase, and no event matching an earlier funnel stage follows
\* an event matching a later funnel stage.
C21_SessionsAreForwardOnly ==
    pc = "session_returned" =>
        TimestampsIncrease(events) /\ StagesForward(events)

====
